---------------------------- MODULE Spec2Model ----------------------------
(***************************************************************************)
(* Communication matrix (commatrix): assembly of the declared matrix (New),*)
(* static catalogue selection, per-node observation fan-out, matrix diff   *)
(* and firewall application (ApplyFireWallRules).                          *)
(***************************************************************************)
EXTENDS Integers, Sequences, FiniteSets, TLC

VARIABLES
    pc,                  \* control state of the entry point / of New
    e, d,                \* New's Env and Deployment arguments
    customEntriesPath,   \* New's customEntriesPath argument ("" = not supplied)
    customEntriesFormat, \* New's customEntriesFormat argument
    res,                 \* New's accumulating slice `res`
    epSliceComDetails,   \* what endpointslices.ToComDetails returned to New
    customComDetails,    \* what addFromFile returned to New
    staticEntries,       \* what getStaticEntries returned to New
    mat,                 \* declared matrix pointer: <<>> is nil, <<m>> is &ComMatrix{Matrix: m}
    err,                 \* error value of the running function ("" = nil)
    ran,                 \* stages of New executed so far, in order
    fileOpened,          \* os.Open was called on the custom-entries file
    ssComMat,            \* observed matrix (ComMatrix.Matrix)
    diff,                \* diff text, a sequence of lines
    diffBy,              \* which code produced diff
    files,               \* output files written so far
    stages,              \* stages of main attempted so far, in order
    taskPc,              \* per-node position of the observation task
    cds,                 \* per-node result of ss.CreateComDetailsFromNode
    nodesComDetails,     \* the shared accumulator
    nLock,               \* holder of nLock (0 = free)
    gErr,                \* errgroup's recorded first error ("" = nil)
    pods,                \* per-node debug pod state
    debugNs,             \* the debug namespace: "none", "created", "deleteCalled"
    nodeRoles,           \* nodesutil.GetRole of every cluster node
    role,                \* ApplyFireWallRules' role argument
    tcp, udp,            \* ApplyFireWallRules' port-list strings, as token sequences
    fwPc,                \* per-node position of the firewall task
    cmds,                \* per-node remote commands issued, in order
    fwErr,               \* errgroup error of the firewall fan-out
    snap,                \* per-node slice header read by append before its write
    gFailed,             \* observation tasks that returned an error, in return order
    podLog,              \* per-node debug pod events: "new" and "clean", in order
    results,             \* per-node result of every command issued ("ok" / "err")
    fwFailed             \* firewall tasks that returned an error, in return order

vars == <<pc, e, d, customEntriesPath, customEntriesFormat, res,
          epSliceComDetails, customComDetails, staticEntries, mat, err, ran, fileOpened, ssComMat, diff, diffBy, files, taskPc, cds,
          nodesComDetails, nLock, gErr, pods, debugNs, nodeRoles, role, tcp, udp, fwPc, cmds, fwErr,
          snap, gFailed, podLog, results, fwFailed, stages>>

newVars  == <<e, d, customEntriesPath, customEntriesFormat, res, epSliceComDetails,
              customComDetails, staticEntries, err, ran, fileOpened>>
newArgs  == <<e, d, customEntriesPath, customEntriesFormat>>
fileVars == <<files, stages>>
podVars  == <<pods, podLog>>
grpVars  == <<gErr, gFailed>>
lockVars == <<nLock, snap>>
cmdVars  == <<cmds, results>>
fwGrpVars == <<fwErr, fwFailed>>
obsVars  == <<taskPc, cds, nodesComDetails, lockVars, grpVars, podVars, debugNs>>
fwVars   == <<nodeRoles, role, tcp, udp, fwPc, cmdVars, fwGrpVars>>
diffVars == <<diff, diffBy>>

-----------------------------------------------------------------------------
(* Bounds of the model *)

MaxSrc == 2      \* longest cluster-derived / custom-entries sequence
MaxMat == 2      \* longest matrix handed to the diff
NumNodes == 2    \* cluster nodes
MaxCds == 2      \* longest per-node observation result
MaxFwMat == 3    \* longest matrix handed to ApplyFireWallRules

-----------------------------------------------------------------------------
(* Entity model: types.ComDetails and types.ComMatrix *)

ComDetails(proto, port, ns, svc, pod, ctr, nodeRole, opt) ==
    [Direction |-> "Ingress", Protocol |-> proto, Port |-> port, Namespace |-> ns,
     Service |-> svc, Pod |-> pod, Container |-> ctr, NodeRole |-> nodeRole,
     Optional |-> opt]

\* the identity tuple of a record: every field but Optional
Identity(cd) ==
    <<cd.Direction, cd.Protocol, cd.Port, cd.Namespace, cd.Service, cd.Pod,
      cd.Container, cd.NodeRole>>

Equals(a, b) == Identity(a) = Identity(b)

Contains(m, cd) == \E i \in 1..Len(m) : Equals(m[i], cd)

\* first-seen order, later duplicates (by identity) dropped
RECURSIVE CleanFrom(_, _)
CleanFrom(kept, rest) ==
    IF rest = <<>> THEN kept
    ELSE IF Contains(kept, Head(rest)) THEN CleanFrom(kept, Tail(rest))
         ELSE CleanFrom(Append(kept, Head(rest)), Tail(rest))

CleanComDetails(outPuts) == CleanFrom(<<>>, outPuts)

\* the CSV rendering of a record: one value per column
ComDetailsString(cd) ==
    <<cd.Direction, cd.Protocol, cd.Port, cd.Namespace, cd.Service, cd.Pod,
      cd.Container, cd.NodeRole, cd.Optional>>

CSVHeaders ==
    <<"Direction", "Protocol", "Port", "Namespace", "Service", "Pod",
      "Container", "NodeRole", "Optional">>

Line(prefix, text) == [prefix |-> prefix, text |-> text]

NoDuplicates(m) ==
    \A i, j \in 1..Len(m) : Equals(m[i], m[j]) => i = j

\* sequences over S of length at most n
BoundedSeq(S, n) == UNION {[1..k -> S] : k \in 0..n}

-----------------------------------------------------------------------------
(* Records the inputs are drawn from *)

sshd      == ComDetails("TCP", 22, "", "sshd", "", "", "master", FALSE)
sshdOpt   == ComDetails("TCP", 22, "", "sshd", "", "", "master", TRUE)
statd     == ComDetails("UDP", 111, "", "rpc.statd", "", "", "master", FALSE)
exporter  == ComDetails("TCP", 9100, "", "node-exporter", "", "", "worker", FALSE)

exporterOpt == ComDetails("TCP", 9100, "", "node-exporter", "", "", "worker", TRUE)

Universe == {sshd, sshdOpt, statd, exporter, exporterOpt}

-----------------------------------------------------------------------------
(* Diff engine *)

\* the declared-records loop shared by both versions of the diff
RECURSIVE DeclaredLines(_, _)
DeclaredLines(m1, m2) ==
    IF m1 = <<>> THEN <<>>
    ELSE LET cd == Head(m1) IN
         (IF Contains(m2, cd)
            THEN <<Line("", ComDetailsString(cd))>>
            ELSE <<Line("+ ", ComDetailsString(cd))>>)
         \o DeclaredLines(Tail(m1), m2)

RECURSIVE ObservedLines(_, _)
ObservedLines(m1, m2) ==
    IF m2 = <<>> THEN <<>>
    ELSE LET cd == Head(m2) IN
         (IF cd.Service = "rpc.statd" THEN <<>>
          ELSE IF ~Contains(m1, cd)
            THEN <<Line("- ", ComDetailsString(cd))>>
            ELSE <<>>)
         \o ObservedLines(m1, Tail(m2))

\* mutant: the `continue` after the unprefixed line is missing
RECURSIVE DeclaredLinesNoContinue(_, _)
DeclaredLinesNoContinue(m1, m2) ==
    IF m1 = <<>> THEN <<>>
    ELSE LET cd == Head(m1) IN
         (IF Contains(m2, cd)
            THEN <<Line("", ComDetailsString(cd)), Line("+ ", ComDetailsString(cd))>>
            ELSE <<Line("+ ", ComDetailsString(cd))>>)
         \o DeclaredLinesNoContinue(Tail(m1), m2)

buildMatrixDiff_NoContinue(mat1, mat2) ==
    <<Line("", CSVHeaders)>> \o DeclaredLinesNoContinue(mat1, mat2)
    \o ObservedLines(mat1, mat2)

buildMatrixDiff(mat1, mat2) ==
    <<Line("", CSVHeaders)>> \o DeclaredLines(mat1, mat2) \o ObservedLines(mat1, mat2)

\* the diff loops written inline in the older entry point: no header, no exception
RECURSIVE InlineObservedLines(_, _)
InlineObservedLines(m1, m2) ==
    IF m2 = <<>> THEN <<>>
    ELSE LET cd == Head(m2) IN
         (IF ~Contains(m1, cd)
            THEN <<Line("- ", ComDetailsString(cd))>>
            ELSE <<>>)
         \o InlineObservedLines(m1, Tail(m2))

inlineDiff(mat1, mat2) ==
    DeclaredLines(mat1, mat2) \o InlineObservedLines(mat1, mat2)

-----------------------------------------------------------------------------
(* Static catalogue *)

Baremetal == 0
AWS == 1
SNO == 0
MNO == 1

Envs == {Baremetal, AWS, AWS + 1}     \* the last one is no declared Env
Deployments == {SNO, MNO}

bmOperator   == ComDetails("TCP", 9447, "", "baremetal-operator", "", "", "master", FALSE)
bmIronic     == ComDetails("TCP", 6385, "", "ironic", "", "", "worker", FALSE)
awsCloudCtrl == ComDetails("TCP", 10258, "", "cloud-controller", "", "", "master", FALSE)
awsCsiNode   == ComDetails("TCP", 10300, "", "csi-node-driver", "", "", "worker", FALSE)
geneve       == ComDetails("UDP", 6081, "", "ovn-kubernetes", "", "", "master", FALSE)

baremetalStaticEntriesMaster == <<bmOperator>>
baremetalStaticEntriesWorker == <<bmIronic>>
awsCloudStaticEntriesMaster  == <<awsCloudCtrl>>
awsCloudStaticEntriesWorker  == <<awsCsiNode>>
generalStaticEntriesMaster   == <<sshd, statd>>
MNOStaticEntries             == <<geneve, exporter>>
generalStaticEntriesWorker   == <<exporterOpt>>

Returned(entries, error) == [entries |-> entries, err |-> error]

\* mutant: the general master table is appended before the environment's tables
getStaticEntries_GeneralFirst(env, dep) ==
    IF env \notin {Baremetal, AWS}
      THEN Returned(<<>>, "invalid value for cluster environment")
      ELSE
        LET master == IF env = Baremetal THEN baremetalStaticEntriesMaster
                      ELSE awsCloudStaticEntriesMaster
            worker == IF env = Baremetal THEN baremetalStaticEntriesWorker
                      ELSE awsCloudStaticEntriesWorker
            afterSwitch == IF dep = SNO THEN master ELSE master \o worker
            withGeneral == generalStaticEntriesMaster \o afterSwitch
        IN IF dep = SNO
             THEN Returned(withGeneral, "")
             ELSE Returned(withGeneral \o MNOStaticEntries \o generalStaticEntriesWorker, "")

\* mutant: the general master table is appended for the single-node topology only
getStaticEntries_GeneralOnlySNO(env, dep) ==
    IF env \notin {Baremetal, AWS}
      THEN Returned(<<>>, "invalid value for cluster environment")
      ELSE
        LET master == IF env = Baremetal THEN baremetalStaticEntriesMaster
                      ELSE awsCloudStaticEntriesMaster
            worker == IF env = Baremetal THEN baremetalStaticEntriesWorker
                      ELSE awsCloudStaticEntriesWorker
        IN IF dep = SNO
             THEN Returned(master \o generalStaticEntriesMaster, "")
             ELSE Returned(master \o worker \o MNOStaticEntries
                           \o generalStaticEntriesWorker, "")

getStaticEntries(env, dep) ==
    IF env \notin {Baremetal, AWS}
      THEN Returned(<<>>, "invalid value for cluster environment")
      ELSE
        LET master == IF env = Baremetal THEN baremetalStaticEntriesMaster
                      ELSE awsCloudStaticEntriesMaster
            worker == IF env = Baremetal THEN baremetalStaticEntriesWorker
                      ELSE awsCloudStaticEntriesWorker
            afterSwitch == IF dep = SNO THEN master ELSE master \o worker
            withGeneral == afterSwitch \o generalStaticEntriesMaster
        IN IF dep = SNO
             THEN Returned(withGeneral, "")
             ELSE Returned(withGeneral \o MNOStaticEntries \o generalStaticEntriesWorker, "")

-----------------------------------------------------------------------------
(* Custom entry loader *)

FormatTokens == {"json", "yaml", "csv"}

\* mutant: an unknown token yields FormatErr without an error
parseFormat_NoError(format) ==
    IF format = "json" THEN [format |-> "JSON", err |-> ""]
    ELSE IF format = "yaml" THEN [format |-> "YAML", err |-> ""]
    ELSE IF format = "csv" THEN [format |-> "CSV", err |-> ""]
    ELSE [format |-> "FormatErr", err |-> ""]

parseFormat(format) ==
    IF format = "json" THEN [format |-> "JSON", err |-> ""]
    ELSE IF format = "yaml" THEN [format |-> "YAML", err |-> ""]
    ELSE IF format = "csv" THEN [format |-> "CSV", err |-> ""]
    ELSE [format |-> "FormatErr", err |-> "failed to parse format"]

\* what the file system and the decoder can do to one load
FileOutcomes == {"openFails", "readFails", "decodeFails", "ok"}

\* addFromFile on a file whose state is `outcome` and whose decoded content is `entries`
addFromFile(outcome, entries, format) ==
    IF outcome = "openFails"
      THEN [entries |-> <<>>, err |-> "failed to open file", opened |-> TRUE]
    ELSE IF outcome = "readFails"
      THEN [entries |-> <<>>, err |-> "failed to read file", opened |-> TRUE]
    ELSE IF format \in {"JSON", "YAML", "CSV"}
      THEN IF outcome = "decodeFails"
             THEN [entries |-> <<>>, err |-> "failed to unmarshal custom entries file",
                   opened |-> TRUE]
             ELSE [entries |-> entries, err |-> "", opened |-> TRUE]
    ELSE [entries |-> <<>>, err |-> "invalid value for format must be (json,yaml,csv)",
          opened |-> TRUE]

-----------------------------------------------------------------------------
(* Matrix assembly pipeline: New, one action per stage *)

NewStages == <<"client.New", "GetIngressEndpointSlicesInfo", "ToComDetails",
               "getStaticEntries", "parseFormat", "addFromFile", "CleanComDetails">>

\* mutant: a failing stage hands back what was collected so far
NewFails_Partial(stage, error) ==
    /\ pc' = "new:returned"
    /\ ran' = Append(ran, stage)
    /\ mat' = <<res>>
    /\ err' = error

\* `return nil, err`
NewFails(stage, error) ==
    /\ pc' = "new:returned"
    /\ ran' = Append(ran, stage)
    /\ mat' = <<>>
    /\ err' = error

NewGoes(stage, next) ==
    /\ pc' = next
    /\ ran' = Append(ran, stage)
    /\ UNCHANGED <<mat, err>>

\* main's check of the flags before it calls New
MainCheckCustomFormat ==
    /\ pc = "main:flags"
    /\ IF customEntriesPath # "" /\ customEntriesFormat = ""
         THEN /\ pc' = "main:panic"
              /\ err' = "error, variable customEntriesFormat is not set"
         ELSE /\ pc' = "new:client"
              /\ err' = err
    /\ UNCHANGED <<newArgs, res, epSliceComDetails, customComDetails, staticEntries,
                   mat, ran, fileOpened, ssComMat, fileVars>>
    /\ UNCHANGED <<diffVars, obsVars, fwVars>>

NewClient ==
    /\ pc = "new:client"
    /\ \E ok \in BOOLEAN :
         IF ok THEN NewGoes("client.New", "new:epslices")
         ELSE NewFails("client.New", "failed creating the k8s client")
    /\ UNCHANGED <<newArgs, res, epSliceComDetails, customComDetails, staticEntries,
                   fileOpened, ssComMat, fileVars>>
    /\ UNCHANGED <<diffVars, obsVars, fwVars>>

NewGetEndpointSlices ==
    /\ pc = "new:epslices"
    /\ \E ok \in BOOLEAN :
         IF ok THEN NewGoes("GetIngressEndpointSlicesInfo", "new:tocomdetails")
         ELSE NewFails("GetIngressEndpointSlicesInfo", "failed getting endpointslices")
    /\ UNCHANGED <<newArgs, res, epSliceComDetails, customComDetails, staticEntries,
                   fileOpened, ssComMat, fileVars>>
    /\ UNCHANGED <<diffVars, obsVars, fwVars>>

NewToComDetails ==
    /\ pc = "new:tocomdetails"
    /\ \/ /\ NewFails("ToComDetails", "endpointslices.ToComDetails failed")
          /\ UNCHANGED <<res, epSliceComDetails>>
       \/ \E translated \in BoundedSeq(Universe, MaxSrc) :
            /\ NewGoes("ToComDetails", "new:static")
            /\ epSliceComDetails' = translated
            /\ res' = res \o translated
    /\ UNCHANGED <<newArgs, customComDetails, staticEntries,
                   fileOpened, ssComMat, fileVars>>
    /\ UNCHANGED <<diffVars, obsVars, fwVars>>

\* mutant: the static entries are put in front of the cluster-derived ones
NewStaticEntries_Prepend ==
    /\ pc = "new:static"
    /\ LET got == getStaticEntries(e, d) IN
         /\ staticEntries' = got.entries
         /\ IF got.err # ""
              THEN /\ NewFails("getStaticEntries", "failed adding static entries")
                   /\ res' = res
              ELSE /\ NewGoes("getStaticEntries",
                              IF customEntriesPath # "" THEN "new:parseformat"
                              ELSE "new:clean")
                   /\ res' = got.entries \o res
    /\ UNCHANGED <<newArgs, epSliceComDetails, customComDetails,
                   fileOpened, ssComMat, fileVars>>
    /\ UNCHANGED <<diffVars, obsVars, fwVars>>

NewStaticEntries ==
    /\ pc = "new:static"
    /\ LET got == getStaticEntries(e, d) IN
         /\ staticEntries' = got.entries
         /\ IF got.err # ""
              THEN /\ NewFails("getStaticEntries", "failed adding static entries")
                   /\ res' = res
              ELSE /\ NewGoes("getStaticEntries",
                              IF customEntriesPath # "" THEN "new:parseformat"
                              ELSE "new:clean")
                   /\ res' = res \o got.entries
    /\ UNCHANGED <<newArgs, epSliceComDetails, customComDetails,
                   fileOpened, ssComMat, fileVars>>
    /\ UNCHANGED <<diffVars, obsVars, fwVars>>

\* lines 72-83: the custom entries, when a path was supplied
NewCustomEntries ==
    /\ pc = "new:parseformat"
    /\ LET parsed == parseFormat(customEntriesFormat) IN
         IF parsed.err # ""
           THEN /\ NewFails("parseFormat", "failed adding custom entries: format")
                /\ UNCHANGED <<res, customComDetails, fileOpened>>
           ELSE \E outcome \in FileOutcomes, entries \in BoundedSeq(Universe, MaxSrc) :
                  LET loaded == addFromFile(outcome, entries, parsed.format) IN
                    /\ fileOpened' = loaded.opened
                    /\ IF loaded.err # ""
                         THEN /\ pc' = "new:returned"
                              /\ ran' = ran \o <<"parseFormat", "addFromFile">>
                              /\ mat' = <<>>
                              /\ err' = "failed adding custom entries: file"
                              /\ UNCHANGED <<res, customComDetails>>
                         ELSE /\ pc' = "new:clean"
                              /\ ran' = ran \o <<"parseFormat", "addFromFile">>
                              /\ UNCHANGED <<mat, err>>
                              /\ customComDetails' = loaded.entries
                              /\ res' = res \o loaded.entries
    /\ UNCHANGED <<newArgs, epSliceComDetails, staticEntries, ssComMat, fileVars>>
    /\ UNCHANGED <<diffVars, obsVars, fwVars>>

\* mutant: the concatenation is returned without deduplication
NewReturn_NoClean ==
    /\ pc = "new:clean"
    /\ pc' = "new:returned"
    /\ ran' = Append(ran, "CleanComDetails")
    /\ mat' = <<res>>
    /\ err' = ""
    /\ UNCHANGED <<newArgs, res, epSliceComDetails, customComDetails, staticEntries,
                   fileOpened, ssComMat, fileVars>>
    /\ UNCHANGED <<diffVars, obsVars, fwVars>>

NewReturn ==
    /\ pc = "new:clean"
    /\ pc' = "new:returned"
    /\ ran' = Append(ran, "CleanComDetails")
    /\ mat' = <<CleanComDetails(res)>>
    /\ err' = ""
    /\ UNCHANGED <<newArgs, res, epSliceComDetails, customComDetails, staticEntries,
                   fileOpened, ssComMat, fileVars>>
    /\ UNCHANGED <<diffVars, obsVars, fwVars>>

-----------------------------------------------------------------------------
(* Idle values of the parts a specification does not exercise *)

Nodes == 1..NumNodes

NewIdle ==
    /\ e = Baremetal /\ d = MNO
    /\ customEntriesPath = "" /\ customEntriesFormat = ""
    /\ res = <<>> /\ epSliceComDetails = <<>> /\ customComDetails = <<>>
    /\ staticEntries = <<>>
    /\ err = "" /\ ran = <<>> /\ fileOpened = FALSE

ObsIdle ==
    /\ taskPc = [n \in Nodes |-> "idle"]
    /\ cds = [n \in Nodes |-> <<>>]
    /\ nodesComDetails = <<>>
    /\ nLock = 0
    /\ snap = [n \in Nodes |-> <<>>]
    /\ gErr = ""
    /\ gFailed = <<>>
    /\ pods = [n \in Nodes |-> "none"]
    /\ podLog = [n \in Nodes |-> <<>>]
    /\ debugNs = "none"

FwIdle ==
    /\ nodeRoles = [n \in Nodes |-> "master"]
    /\ role = "" /\ tcp = <<>> /\ udp = <<>>
    /\ fwPc = [n \in Nodes |-> "idle"]
    /\ cmds = [n \in Nodes |-> <<>>]
    /\ results = [n \in Nodes |-> <<>>]
    /\ fwErr = ""
    /\ fwFailed = <<>>

DiffIdle == diff = <<>> /\ diffBy = ""

-----------------------------------------------------------------------------
(* The assembly pipeline on its own: New called with any arguments, from main
   (after its flag checks) or directly *)

InitNew ==
    /\ pc \in {"main:flags", "new:client"}
    /\ e \in Envs
    /\ d \in Deployments
    /\ pc = "main:flags" => e \in {Baremetal, AWS}
    /\ customEntriesPath \in {"", "custom-entries"}
    /\ customEntriesFormat \in {"", "json", "yaml", "csv", "xml"}
    /\ res = <<>> /\ epSliceComDetails = <<>> /\ customComDetails = <<>>
    /\ staticEntries = <<>>
    /\ mat = <<>> /\ err = "" /\ ran = <<>> /\ fileOpened = FALSE
    /\ ssComMat = <<>> /\ files = {} /\ stages = <<>>
    /\ DiffIdle /\ ObsIdle /\ FwIdle

NextNew ==
    \/ MainCheckCustomFormat
    \/ NewClient
    \/ NewGetEndpointSlices
    \/ NewToComDetails
    \/ NewStaticEntries
    \/ NewCustomEntries
    \/ NewReturn

SpecNew == InitNew /\ [][NextNew]_vars

-----------------------------------------------------------------------------
(* Properties of the assembly pipeline *)

Range(s) == {s[i] : i \in 1..Len(s)}

HasId(s, id) == \E i \in 1..Len(s) : Identity(s[i]) = id

FirstPos(s, id) ==
    CHOOSE i \in 1..Len(s) :
        Identity(s[i]) = id /\ \A j \in 1..(i - 1) : Identity(s[j]) # id

FirstWith(s, id) == s[FirstPos(s, id)]

NewSucceeded == pc = "new:returned" /\ err = ""

\* C5: on success New returns the deduplication of cluster-derived ++ static ++
\* custom records: every source record is represented, each survivor is the first
\* record of its identity in the highest-precedence source holding it (cluster
\* over static over custom), and survivors keep the order of first occurrence.
C5_NewMergePrecedence ==
    NewSucceeded =>
      LET m == mat[1]
          all == epSliceComDetails \o staticEntries \o customComDetails
      IN /\ Len(mat) = 1
         /\ NoDuplicates(m)
         /\ \A i \in 1..Len(all) : Contains(m, all[i])
         /\ \A k \in 1..Len(m) :
              LET id == Identity(m[k]) IN
                /\ HasId(all, id)
                /\ m[k] = IF HasId(epSliceComDetails, id)
                            THEN FirstWith(epSliceComDetails, id)
                          ELSE IF HasId(staticEntries, id)
                            THEN FirstWith(staticEntries, id)
                          ELSE FirstWith(customComDetails, id)
         /\ \A k1, k2 \in 1..Len(m) :
              k1 < k2 => FirstPos(all, Identity(m[k1])) < FirstPos(all, Identity(m[k2]))

\* a success where a cluster record beat a static one and a static one beat a custom one
C5_Witness ==
    /\ NewSucceeded
    /\ d = MNO
    /\ sshdOpt \in Range(epSliceComDetails)
    /\ exporterOpt \in Range(customComDetails)
    /\ exporter \notin Range(epSliceComDetails)
    /\ exporterOpt \notin Range(epSliceComDetails)
    /\ sshdOpt \in Range(mat[1]) /\ sshd \notin Range(mat[1])
    /\ exporter \in Range(mat[1]) /\ exporterOpt \notin Range(mat[1])

EnvMaster(env) ==
    IF env = Baremetal THEN baremetalStaticEntriesMaster ELSE awsCloudStaticEntriesMaster

EnvWorker(env) ==
    IF env = Baremetal THEN baremetalStaticEntriesWorker ELSE awsCloudStaticEntriesWorker

StaticSelected == "getStaticEntries" \in Range(ran)

\* C6: getStaticEntries returns, for SingleNode, the environment's master table then
\* the general master table; for MultiNode, the environment's master and worker
\* tables, the general master table, the multi-node table and the general worker
\* table in that order; for any other environment an error and no entries.
C6_StaticSelection ==
    StaticSelected =>
      /\ e \notin {Baremetal, AWS} =>
           /\ staticEntries = <<>>
           /\ pc = "new:returned" /\ err = "failed adding static entries"
      /\ (e \in {Baremetal, AWS} /\ d = SNO) =>
           staticEntries = EnvMaster(e) \o generalStaticEntriesMaster
      /\ (e \in {Baremetal, AWS} /\ d = MNO) =>
           staticEntries = EnvMaster(e) \o EnvWorker(e) \o generalStaticEntriesMaster
                           \o MNOStaticEntries \o generalStaticEntriesWorker

C6_Witness ==
    /\ StaticSelected /\ e = AWS /\ d = MNO
    /\ staticEntries = <<awsCloudCtrl, awsCsiNode, sshd, statd, geneve, exporter,
                         exporterOpt>>

\* C7: for each valid environment every record of the SingleNode selection is
\* contained, by identity, in the MultiNode selection.
C7_SingleNodeSubset ==
    (StaticSelected /\ e \in {Baremetal, AWS}) =>
      /\ d = SNO =>
           \A i \in 1..Len(staticEntries) :
               Contains(getStaticEntries(e, MNO).entries, staticEntries[i])
      /\ d = MNO =>
           LET single == getStaticEntries(e, SNO).entries IN
             \A i \in 1..Len(single) : Contains(staticEntries, single[i])

C7_Witness ==
    /\ StaticSelected /\ e = Baremetal /\ d = SNO
    /\ Len(staticEntries) = 3

BadToken == customEntriesPath # "" /\ customEntriesFormat \notin FormatTokens

\* C8: with a custom-entries path and a format token that is none of json, yaml,
\* csv (the empty token included) the run fails, the custom-entries step fails
\* with the configuration / unsupported-format error, the file is never opened
\* and no matrix is returned.
C8_BadFormatBeforeFileIO ==
    BadToken =>
      /\ fileOpened = FALSE
      /\ mat = <<>>
      /\ pc # "new:clean"
      /\ pc = "new:returned" => err # ""
      /\ pc = "main:panic" => err = "error, variable customEntriesFormat is not set"
      /\ "parseFormat" \in Range(ran) =>
           /\ pc = "new:returned"
           /\ err = "failed adding custom entries: format"
           /\ "addFromFile" \notin Range(ran)

C8_Witness ==
    /\ BadToken /\ customEntriesFormat = "xml"
    /\ pc = "new:returned"
    /\ "parseFormat" \in Range(ran)
    /\ err = "failed adding custom entries: format"

ApplicableStages ==
    IF customEntriesPath # "" THEN NewStages
    ELSE SelectSeq(NewStages, LAMBDA st : st \notin {"parseFormat", "addFromFile"})

\* C10: New never returns a partial matrix: a failure at any stage gives a nil
\* matrix with a non-nil error, the stages run in order and none runs after the
\* failing one; a matrix is returned only when every applicable stage has run.
C10_NoPartialMatrix ==
    /\ Len(ran) <= Len(ApplicableStages)
    /\ ran = SubSeq(ApplicableStages, 1, Len(ran))
    /\ (err # "" /\ pc # "main:panic") => (pc = "new:returned" /\ mat = <<>>)
    /\ mat # <<>> => (pc = "new:returned" /\ err = "" /\ ran = ApplicableStages)
    /\ pc = "new:returned" => (mat = <<>>) = (err # "")
    /\ (pc = "new:returned" /\ err # "") => ran # ApplicableStages

C10_Witness ==
    /\ pc = "new:returned" /\ err = "failed adding custom entries: file"
    /\ mat = <<>> /\ fileOpened
    /\ Len(res) > 0
    /\ ran = SubSeq(NewStages, 1, 6)

-----------------------------------------------------------------------------
(* The diff engine on its own: any declared and observed matrix *)

\* main, line 180: diff := buildMatrixDiff(*mat, ssComMat)
BuildDiff ==
    /\ pc = "diff"
    /\ diff' = buildMatrixDiff(mat[1], ssComMat)
    /\ diffBy' = "buildMatrixDiff"
    /\ pc' = "diff:built"
    /\ UNCHANGED <<newVars, mat, ssComMat, fileVars, obsVars, fwVars>>

\* the older entry point builds the diff inline
InlineDiff ==
    /\ pc = "diff"
    /\ diff' = inlineDiff(mat[1], ssComMat)
    /\ diffBy' = "inline"
    /\ pc' = "diff:built"
    /\ UNCHANGED <<newVars, mat, ssComMat, fileVars, obsVars, fwVars>>

\* a panic of main runs its deferred debug.DeleteNamespace, once it is registered
AfterPanic(n) == IF n = "created" THEN "deleteCalled" ELSE n

\* os.WriteFile(<destDir>/matrix-diff-ss, diff)
WriteDiffFile ==
    /\ pc = "diff:built"
    /\ stages' = Append(stages, "diff-file")
    /\ \/ /\ files' = files \cup {"matrix-diff-ss"}
          /\ pc' = "diff:written"
          /\ debugNs' = debugNs
       \/ /\ files' = files
          /\ pc' = "main:panic"
          /\ debugNs' = AfterPanic(debugNs)
    /\ UNCHANGED <<newVars, mat, ssComMat, diffVars, fwVars>>
    /\ UNCHANGED <<taskPc, cds, nodesComDetails, lockVars, grpVars, podVars>>

InitDiff ==
    /\ pc = "diff"
    /\ mat \in {<<m>> : m \in BoundedSeq(Universe, MaxMat)}
    /\ ssComMat \in BoundedSeq(Universe, MaxMat)
    /\ files = {} /\ stages = <<>>
    /\ NewIdle /\ DiffIdle /\ ObsIdle /\ FwIdle

NextDiff ==
    \/ BuildDiff
    \/ InlineDiff
    \/ WriteDiffFile

SpecDiff == InitDiff /\ [][NextDiff]_vars

DiffBuilt == pc \in {"diff:built", "diff:written"}

\* lines of the diff, the header aside, that render record cd
LinesOf(cd) == {j \in 2..Len(diff) : diff[j].text = ComDetailsString(cd)}

\* observed records that the diff has to flag
Undeclared(m1, m2) ==
    {i \in 1..Len(m2) : m2[i].Service # "rpc.statd" /\ ~Contains(m1, m2[i])}

\* C1: for matrices without duplicate identities buildMatrixDiff emits every
\* declared record exactly once, unprefixed iff the observed matrix contains it
\* and "+ "-prefixed otherwise, every observed record that is neither rpc.statd
\* nor declared exactly once with "- ", and beside the header no other line.
C1_DiffCompleteness ==
    (DiffBuilt /\ diffBy = "buildMatrixDiff"
       /\ NoDuplicates(mat[1]) /\ NoDuplicates(ssComMat)) =>
      LET m1 == mat[1]
          m2 == ssComMat
      IN /\ Len(diff) >= 1 /\ diff[1] = Line("", CSVHeaders)
         /\ \A i \in 1..Len(m1) :
              /\ Cardinality(LinesOf(m1[i])) = 1
              /\ \A j \in LinesOf(m1[i]) :
                   diff[j].prefix = IF Contains(m2, m1[i]) THEN "" ELSE "+ "
         /\ \A i \in Undeclared(m1, m2) :
              /\ Cardinality(LinesOf(m2[i])) = 1
              /\ \A j \in LinesOf(m2[i]) : diff[j].prefix = "- "
         /\ Len(diff) = 1 + Len(m1) + Cardinality(Undeclared(m1, m2))

\* a diff with an unprefixed line (observed under the other optionality), a
\* "+ " line and a "- " line
C1_Witness ==
    /\ DiffBuilt /\ diffBy = "buildMatrixDiff"
    /\ mat[1] = <<sshd, statd>>
    /\ ssComMat = <<sshdOpt, exporter>>
    /\ diff = <<Line("", CSVHeaders), Line("", ComDetailsString(sshd)),
                Line("+ ", ComDetailsString(statd)),
                Line("- ", ComDetailsString(exporter))>>

\* C2: an rpc.statd record that only the observed matrix holds never appears in
\* the diff output, whatever the two matrices are.
C2_StatdNeverInDiff ==
    DiffBuilt =>
      \A i \in 1..Len(ssComMat) :
        (ssComMat[i].Service = "rpc.statd" /\ ~Contains(mat[1], ssComMat[i])) =>
          \A j \in 1..Len(diff) : diff[j].text # ComDetailsString(ssComMat[i])

-----------------------------------------------------------------------------
(* Observed matrix builder: main's per-node fan-out and fan-in *)

\* records a node's socket state can be parsed into
ObsUniverse == {sshdOpt, statd}

obsRest == <<newVars, mat, diffVars, fwVars>>

\* cs.CoreV1Interface.Nodes().List
ObsListNodes ==
    /\ pc = "obs:list"
    /\ \/ pc' = "obs:namespace"
       \/ pc' = "main:panic"
    /\ UNCHANGED <<obsRest, obsVars, ssComMat, fileVars>>

\* debug.CreateNamespace and the deferred debug.DeleteNamespace
ObsCreateNamespace ==
    /\ pc = "obs:namespace"
    /\ \/ /\ debugNs' = "created"
          /\ pc' = "obs:fanout"
       \/ /\ debugNs' = debugNs
          /\ pc' = "main:panic"
    /\ UNCHANGED <<obsRest, ssComMat, fileVars>>
    /\ UNCHANGED <<taskPc, cds, nodesComDetails, lockVars, grpVars, podVars>>

\* the loop of g.Go calls: one task per listed node
ObsFanOut ==
    /\ pc = "obs:fanout"
    /\ taskPc' = [n \in Nodes |-> "debug.New"]
    /\ pc' = "obs:wait"
    /\ stages' = Append(stages, "capture")
    /\ UNCHANGED <<obsRest, ssComMat, files>>
    /\ UNCHANGED <<cds, nodesComDetails, lockVars, grpVars, podVars, debugNs>>

\* the error a failing task of node n returns
TaskError(n) == "task failed on node " \o ToString(n)

\* debug.New in the task of node n
TaskDebugNew(n) ==
    /\ taskPc[n] = "debug.New"
    /\ \/ /\ pods' = [pods EXCEPT ![n] = "up"]
          /\ podLog' = [podLog EXCEPT ![n] = Append(@, "new")]
          /\ taskPc' = [taskPc EXCEPT ![n] = "capture"]
       \/ /\ UNCHANGED podVars
          /\ taskPc' = [taskPc EXCEPT ![n] = "fail"]
    /\ UNCHANGED <<pc, obsRest, ssComMat, fileVars>>
    /\ UNCHANGED <<cds, nodesComDetails, lockVars, grpVars, debugNs>>

\* ss.CreateComDetailsFromNode in the task of node n
TaskCapture(n) ==
    /\ taskPc[n] = "capture"
    /\ \/ \E found \in BoundedSeq(ObsUniverse, MaxCds) :
            /\ cds' = [cds EXCEPT ![n] = found]
            /\ taskPc' = [taskPc EXCEPT ![n] = "lock"]
       \/ /\ cds' = cds
          /\ taskPc' = [taskPc EXCEPT ![n] = "fail"]
    /\ UNCHANGED <<pc, obsRest, ssComMat, fileVars>>
    /\ UNCHANGED <<nodesComDetails, lockVars, grpVars, podVars, debugNs>>

\* mutant: the lock is taken without waiting for its holder
TaskLock_NoWait(n) ==
    /\ taskPc[n] = "lock"
    /\ nLock' = n
    /\ snap' = snap
    /\ taskPc' = [taskPc EXCEPT ![n] = "append"]
    /\ UNCHANGED <<pc, obsRest, ssComMat, fileVars>>
    /\ UNCHANGED <<cds, nodesComDetails, grpVars, podVars, debugNs>>

\* nLock.Lock()
TaskLock(n) ==
    /\ taskPc[n] = "lock"
    /\ nLock = 0
    /\ nLock' = n
    /\ snap' = snap
    /\ taskPc' = [taskPc EXCEPT ![n] = "append"]
    /\ UNCHANGED <<pc, obsRest, ssComMat, fileVars>>
    /\ UNCHANGED <<cds, nodesComDetails, grpVars, podVars, debugNs>>

\* append(nodesComDetails, cds...) evaluates its first argument: the slice header
\* of the accumulator is read
TaskAppendRead(n) ==
    /\ taskPc[n] = "append"
    /\ snap' = [snap EXCEPT ![n] = nodesComDetails]
    /\ nLock' = nLock
    /\ taskPc' = [taskPc EXCEPT ![n] = "append:write"]
    /\ UNCHANGED <<pc, obsRest, ssComMat, fileVars>>
    /\ UNCHANGED <<cds, nodesComDetails, grpVars, podVars, debugNs>>

\* nodesComDetails = append(nodesComDetails, cds...): the grown slice is stored
TaskAppend(n) ==
    /\ taskPc[n] = "append:write"
    /\ nodesComDetails' = snap[n] \o cds[n]
    /\ taskPc' = [taskPc EXCEPT ![n] = "unlock"]
    /\ UNCHANGED <<pc, obsRest, ssComMat, fileVars>>
    /\ UNCHANGED <<cds, lockVars, grpVars, podVars, debugNs>>

\* mutant: the task goes on to its return without releasing the lock
TaskUnlock_NoRelease(n) ==
    /\ taskPc[n] = "unlock"
    /\ UNCHANGED lockVars
    /\ taskPc' = [taskPc EXCEPT ![n] = "return"]
    /\ UNCHANGED <<pc, obsRest, ssComMat, fileVars>>
    /\ UNCHANGED <<cds, nodesComDetails, grpVars, podVars, debugNs>>

\* nLock.Unlock()
TaskUnlock(n) ==
    /\ taskPc[n] = "unlock"
    /\ nLock' = 0
    /\ snap' = snap
    /\ taskPc' = [taskPc EXCEPT ![n] = "return"]
    /\ UNCHANGED <<pc, obsRest, ssComMat, fileVars>>
    /\ UNCHANGED <<cds, nodesComDetails, grpVars, podVars, debugNs>>

\* mutant: Clean is called at the end of the task body only, not deferred
TaskReturn_LeakOnError(n) ==
    /\ taskPc[n] \in {"return", "fail"}
    /\ pods' = [pods EXCEPT ![n] =
                  IF pods[n] = "up" /\ taskPc[n] = "return" THEN "cleaned" ELSE pods[n]]
    /\ podLog' = [podLog EXCEPT ![n] =
                    IF pods[n] = "up" /\ taskPc[n] = "return" THEN Append(@, "clean") ELSE @]
    /\ gErr' = IF taskPc[n] = "fail" /\ gErr = "" THEN TaskError(n) ELSE gErr
    /\ gFailed' = IF taskPc[n] = "fail" THEN Append(gFailed, n) ELSE gFailed
    /\ taskPc' = [taskPc EXCEPT ![n] = "done"]
    /\ UNCHANGED <<pc, obsRest, ssComMat, fileVars>>
    /\ UNCHANGED <<cds, nodesComDetails, lockVars, debugNs>>

\* the task returns: the deferred debugPod.Clean runs when the pod was created,
\* and the errgroup keeps the first non-nil error
TaskReturn(n) ==
    /\ taskPc[n] \in {"return", "fail"}
    /\ pods' = [pods EXCEPT ![n] = IF pods[n] = "up" THEN "cleaned" ELSE pods[n]]
    /\ podLog' = [podLog EXCEPT ![n] = IF pods[n] = "up" THEN Append(@, "clean") ELSE @]
    /\ gErr' = IF taskPc[n] = "fail" /\ gErr = "" THEN TaskError(n) ELSE gErr
    /\ gFailed' = IF taskPc[n] = "fail" THEN Append(gFailed, n) ELSE gFailed
    /\ taskPc' = [taskPc EXCEPT ![n] = "done"]
    /\ UNCHANGED <<pc, obsRest, ssComMat, fileVars>>
    /\ UNCHANGED <<cds, nodesComDetails, lockVars, debugNs>>

\* mutant: the error of the group is dropped and the run goes on
ObsWait_IgnoreError ==
    /\ pc = "obs:wait"
    /\ \A n \in Nodes : taskPc[n] = "done"
    /\ pc' = "obs:clean"
    /\ debugNs' = debugNs
    /\ UNCHANGED <<obsRest, ssComMat, fileVars>>
    /\ UNCHANGED <<taskPc, cds, nodesComDetails, lockVars, grpVars, podVars>>

\* mutant: main goes on without waiting for the tasks
ObsWait_NoBarrier ==
    /\ pc = "obs:wait"
    /\ IF gErr # ""
         THEN /\ pc' = "main:panic"
              /\ debugNs' = AfterPanic(debugNs)
         ELSE /\ pc' = "obs:clean"
              /\ debugNs' = debugNs
    /\ UNCHANGED <<obsRest, ssComMat, fileVars>>
    /\ UNCHANGED <<taskPc, cds, nodesComDetails, lockVars, grpVars, podVars>>

\* err = g.Wait(); if err != nil { panic(err) }
ObsWait ==
    /\ pc = "obs:wait"
    /\ \A n \in Nodes : taskPc[n] = "done"
    /\ IF gErr # ""
         THEN /\ pc' = "main:panic"
              /\ debugNs' = AfterPanic(debugNs)
         ELSE /\ pc' = "obs:clean"
              /\ debugNs' = debugNs
    /\ UNCHANGED <<obsRest, ssComMat, fileVars>>
    /\ UNCHANGED <<taskPc, cds, nodesComDetails, lockVars, grpVars, podVars>>

\* mutant: the accumulator becomes the observed matrix as it is
ObsClean_NoClean ==
    /\ pc = "obs:clean"
    /\ ssComMat' = nodesComDetails
    /\ pc' = "obs:write"
    /\ UNCHANGED <<obsRest, obsVars, fileVars>>

\* cleanedComDetails := types.CleanComDetails(nodesComDetails)
ObsClean ==
    /\ pc = "obs:clean"
    /\ ssComMat' = CleanComDetails(nodesComDetails)
    /\ pc' = "obs:write"
    /\ UNCHANGED <<obsRest, obsVars, fileVars>>

\* printFn(ssComMat) and os.WriteFile(<destDir>/ss-generated-matrix.<format>)
ObsWriteFile ==
    /\ pc = "obs:write"
    /\ stages' = Append(stages, "observed-file")
    /\ \/ /\ files' = files \cup {"ss-generated-matrix"}
          /\ pc' = "diff"
          /\ debugNs' = debugNs
       \/ /\ files' = files
          /\ pc' = "main:panic"
          /\ debugNs' = AfterPanic(debugNs)
    /\ UNCHANGED <<obsRest, ssComMat>>
    /\ UNCHANGED <<taskPc, cds, nodesComDetails, lockVars, grpVars, podVars>>

InitObs ==
    /\ pc = "obs:list"
    /\ mat = << <<sshd, exporter>> >>
    /\ ssComMat = <<>>
    /\ files = {"communication-matrix"} /\ stages = <<"declared-file">>
    /\ NewIdle /\ DiffIdle /\ ObsIdle /\ FwIdle

NextObs ==
    \/ ObsListNodes
    \/ ObsCreateNamespace
    \/ ObsFanOut
    \/ \E n \in Nodes : TaskDebugNew(n)
    \/ \E n \in Nodes : TaskCapture(n)
    \/ \E n \in Nodes : TaskLock(n)
    \/ \E n \in Nodes : TaskAppendRead(n)
    \/ \E n \in Nodes : TaskAppend(n)
    \/ \E n \in Nodes : TaskUnlock(n)
    \/ \E n \in Nodes : TaskReturn(n)
    \/ ObsWait
    \/ ObsClean
    \/ ObsWriteFile
    \/ BuildDiff
    \/ WriteDiffFile

SpecObs == InitObs /\ [][NextObs]_vars

\* both pipelines side by side
InitMatrices == InitNew \/ InitObs

NextMatrices == NextNew \/ NextObs

SpecMatrices == InitMatrices /\ [][NextMatrices]_vars

ObservedBuilt == pc \in {"obs:write", "diff", "diff:built", "diff:written"}

\* C4: the matrix New returns and the observed matrix built after the fan-in
\* hold no two records with the same identity tuple, whatever the sources and
\* the nodes delivered.
C4_NoDuplicateIdentities ==
    /\ NewSucceeded => NoDuplicates(mat[1])
    /\ ObservedBuilt => NoDuplicates(ssComMat)

\* New met the flow of two static tables plus a copy from the cluster and kept one
C4_Witness ==
    /\ NewSucceeded /\ d = MNO
    /\ exporterOpt \in Range(epSliceComDetails)
    /\ Cardinality({i \in 1..Len(res) : Equals(res[i], exporter)}) >= 3
    /\ Cardinality({i \in 1..Len(mat[1]) : Equals(mat[1][i], exporter)}) = 1

\* two nodes reported the same socket and the observed matrix holds it once
C4_WitnessObserved ==
    /\ ObservedBuilt
    /\ Cardinality({i \in 1..Len(nodesComDetails) : Equals(nodesComDetails[i], statd)}) >= 2
    /\ Cardinality({i \in 1..Len(ssComMat) : Equals(ssComMat[i], statd)}) = 1

TaskFailed == gErr # "" \/ \E n \in Nodes : taskPc[n] = "fail"

\* C9: once the task of any node has failed the run can only abort: the observed
\* matrix is never built and neither the observed-matrix file nor the diff file
\* is written, whatever the other tasks appended.
C9_NodeFailureAborts ==
    TaskFailed =>
      /\ pc \in {"obs:wait", "main:panic"}
      /\ ssComMat = <<>>
      /\ diff = <<>>
      /\ "ss-generated-matrix" \notin files
      /\ "matrix-diff-ss" \notin files

\* the run aborted after another node's result had reached the accumulator
C9_Witness ==
    /\ pc = "main:panic"
    /\ gErr # ""
    /\ Len(nodesComDetails) > 0
    /\ \E n \in Nodes : pods[n] = "none"

-----------------------------------------------------------------------------
(* Firewall application: ApplyFireWallRules *)

Separator == ", "

\* the loop of lines 94-104 for one protocol: fmt.Sprint(cd.Port) + ", " per record
RECURSIVE PortString(_, _, _)
PortString(m, r, proto) ==
    IF m = <<>> THEN <<>>
    ELSE LET cd == Head(m) IN
         (IF cd.NodeRole = r /\ cd.Protocol = proto
            THEN <<cd.Port, Separator>>
            ELSE <<>>)
         \o PortString(Tail(m), r, proto)

\* s[:len(s)-2] on a string that, when not empty, ends with the separator; on the
\* empty string the slice bounds are out of range and the runtime panics
CanTrim(str) == Len(str) >= 1

TrimSeparator(str) == SubSeq(str, 1, Len(str) - 1)

\* the ten remote commands of a node's task, in program order
Commands(tcpPorts, udpPorts) ==
    << <<"add chain ip filter FIREWALL">>,
       <<"add rule FIREWALL iif lo accept">>,
       <<"add rule FIREWALL ct state established,related accept">>,
       <<"add rule FIREWALL tcp dport { 22 } accept">>,
       <<"add rule FIREWALL udp dport { 67, 68 } accept">>,
       <<"add rule FIREWALL ip protocol icmp accept">>,
       <<"add rule FIREWALL tcp dport accept", tcpPorts>>,
       <<"add rule FIREWALL udp dport accept", udpPorts>>,
       <<"add rule FIREWALL log prefix firewall drop">>,
       <<"add rule INPUT jump FIREWALL">> >>

NumCommands == Len(Commands(<<>>, <<>>))

fwRest == <<newVars, mat, ssComMat, diffVars, fileVars,
            taskPc, cds, nodesComDetails, lockVars, grpVars, debugNs>>

\* lines 91-108: the port strings and their trimming
FwComputePorts ==
    /\ pc = "fw:ports"
    /\ LET t == PortString(mat[1], role, "TCP")
           u == PortString(mat[1], role, "UDP")
       IN /\ tcp' = t
          /\ udp' = u
          /\ IF CanTrim(t) /\ CanTrim(u)
               THEN pc' = "fw:list"
               ELSE pc' = "fw:panic"
    /\ UNCHANGED <<fwRest, podVars, nodeRoles, role, fwPc, cmdVars, fwGrpVars>>

\* cs.CoreV1Interface.Nodes().List, panic(err) on failure
FwListNodes ==
    /\ pc = "fw:list"
    /\ \/ pc' = "fw:fanout"
       \/ pc' = "fw:panic"
    /\ UNCHANGED <<fwRest, podVars, fwVars>>

\* mutant: the role of the node is not looked at
FwFanOut_AllNodes ==
    /\ pc = "fw:fanout"
    /\ fwPc' = [n \in Nodes |-> "debug.New"]
    /\ pc' = "fw:wait"
    /\ UNCHANGED <<fwRest, podVars, nodeRoles, role, tcp, udp, cmdVars, fwGrpVars>>

\* the loop of lines 116-180: a task for every node of the target role
FwFanOut ==
    /\ pc = "fw:fanout"
    /\ fwPc' = [n \in Nodes |-> IF nodeRoles[n] = role THEN "debug.New" ELSE "skipped"]
    /\ pc' = "fw:wait"
    /\ UNCHANGED <<fwRest, podVars, nodeRoles, role, tcp, udp, cmdVars, fwGrpVars>>

FwDebugNew(n) ==
    /\ fwPc[n] = "debug.New"
    /\ \/ /\ pods' = [pods EXCEPT ![n] = "up"]
          /\ podLog' = [podLog EXCEPT ![n] = Append(@, "new")]
          /\ fwPc' = [fwPc EXCEPT ![n] = "exec"]
       \/ /\ UNCHANGED podVars
          /\ fwPc' = [fwPc EXCEPT ![n] = "fail"]
    /\ UNCHANGED <<pc, fwRest, nodeRoles, role, tcp, udp, cmdVars, fwGrpVars>>

\* mutant: the error of a command is dropped and the next command is sent
FwExec_IgnoreError(n) ==
    /\ fwPc[n] = "exec"
    /\ LET k == Len(cmds[n]) + 1 IN
         /\ cmds' = [cmds EXCEPT ![n] =
                       Append(@, Commands(TrimSeparator(tcp), TrimSeparator(udp))[k])]
         /\ fwPc' = [fwPc EXCEPT ![n] = IF k = NumCommands THEN "return" ELSE "exec"]
         /\ \E r \in {"ok", "err"} : results' = [results EXCEPT ![n] = Append(@, r)]
    /\ UNCHANGED <<pc, fwRest, podVars, nodeRoles, role, tcp, udp, fwGrpVars>>

\* the next debugPod.Exec of node n's task: command number Len(cmds[n]) + 1
FwExec(n) ==
    /\ fwPc[n] = "exec"
    /\ LET k == Len(cmds[n]) + 1 IN
         /\ cmds' = [cmds EXCEPT ![n] =
                       Append(@, Commands(TrimSeparator(tcp), TrimSeparator(udp))[k])]
         /\ \/ /\ results' = [results EXCEPT ![n] = Append(@, "ok")]
               /\ fwPc' = [fwPc EXCEPT ![n] = IF k = NumCommands THEN "return" ELSE "exec"]
            \/ /\ results' = [results EXCEPT ![n] = Append(@, "err")]
               /\ fwPc' = [fwPc EXCEPT ![n] = "fail"]
    /\ UNCHANGED <<pc, fwRest, podVars, nodeRoles, role, tcp, udp, fwGrpVars>>

\* mutant: the first failing task ends the tasks that are still running
FwReturn_CancelOthers(n) ==
    /\ fwPc[n] \in {"return", "fail"}
    /\ pods' = [m \in Nodes |-> IF pods[m] = "up" /\ (m = n \/ fwPc[n] = "fail")
                                  THEN "cleaned" ELSE pods[m]]
    /\ podLog' = [m \in Nodes |-> IF pods[m] = "up" /\ (m = n \/ fwPc[n] = "fail")
                                    THEN Append(podLog[m], "clean") ELSE podLog[m]]
    /\ fwErr' = IF fwPc[n] = "fail" /\ fwErr = "" THEN TaskError(n) ELSE fwErr
    /\ fwFailed' = IF fwPc[n] = "fail" THEN Append(fwFailed, n) ELSE fwFailed
    /\ fwPc' = [m \in Nodes |-> IF m = n \/ (fwPc[n] = "fail" /\ fwPc[m] # "skipped")
                                  THEN "done" ELSE fwPc[m]]
    /\ UNCHANGED <<pc, fwRest, nodeRoles, role, tcp, udp, cmdVars>>

\* the task returns: deferred debugPod.Clean, first error kept by the errgroup
FwReturn(n) ==
    /\ fwPc[n] \in {"return", "fail"}
    /\ pods' = [pods EXCEPT ![n] = IF pods[n] = "up" THEN "cleaned" ELSE pods[n]]
    /\ podLog' = [podLog EXCEPT ![n] = IF pods[n] = "up" THEN Append(@, "clean") ELSE @]
    /\ fwErr' = IF fwPc[n] = "fail" /\ fwErr = "" THEN TaskError(n) ELSE fwErr
    /\ fwFailed' = IF fwPc[n] = "fail" THEN Append(fwFailed, n) ELSE fwFailed
    /\ fwPc' = [fwPc EXCEPT ![n] = "done"]
    /\ UNCHANGED <<pc, fwRest, nodeRoles, role, tcp, udp, cmdVars>>

\* err = g.Wait(); return err
FwWait ==
    /\ pc = "fw:wait"
    /\ \A n \in Nodes : fwPc[n] \in {"done", "skipped"}
    /\ pc' = "fw:returned"
    /\ UNCHANGED <<fwRest, podVars, fwVars>>

\* a second service listening on sshd's protocol and port, on the same role
sshProxy == ComDetails("TCP", 22, "openshift-ssh", "ssh-proxy", "", "", "master", FALSE)

FwUniverse == {sshd, statd, exporter}

\* the records the port lists are computed from
PortsUniverse == FwUniverse \cup {sshProxy}

InitFw ==
    /\ pc = "fw:ports"
    /\ mat \in {<<CleanComDetails(m)>> : m \in BoundedSeq(FwUniverse, MaxFwMat)}
    /\ role \in {"master", "worker"}
    /\ nodeRoles \in [Nodes -> {"master", "worker"}]
    /\ tcp = <<>> /\ udp = <<>>
    /\ fwPc = [n \in Nodes |-> "idle"]
    /\ cmds = [n \in Nodes |-> <<>>]
    /\ results = [n \in Nodes |-> <<>>]
    /\ fwErr = ""
    /\ fwFailed = <<>>
    /\ ssComMat = <<>>
    /\ files = {} /\ stages = <<>>
    /\ NewIdle /\ DiffIdle /\ ObsIdle

NextFw ==
    \/ FwComputePorts
    \/ FwListNodes
    \/ FwFanOut
    \/ \E n \in Nodes : FwDebugNew(n)
    \/ \E n \in Nodes : FwExec(n)
    \/ \E n \in Nodes : FwReturn(n)
    \/ FwWait

SpecFw == InitFw /\ [][NextFw]_vars

\* the head of ApplyFireWallRules on its own: the port lists of any matrix and role
InitFwPorts ==
    /\ pc = "fw:ports"
    /\ mat \in {<<CleanComDetails(m)>> : m \in BoundedSeq(PortsUniverse, MaxFwMat)}
    /\ role \in {"master", "worker"}
    /\ nodeRoles = [n \in Nodes |-> "master"]
    /\ tcp = <<>> /\ udp = <<>>
    /\ fwPc = [n \in Nodes |-> "idle"]
    /\ cmds = [n \in Nodes |-> <<>>]
    /\ results = [n \in Nodes |-> <<>>]
    /\ fwErr = ""
    /\ fwFailed = <<>>
    /\ ssComMat = <<>>
    /\ files = {} /\ stages = <<>>
    /\ NewIdle /\ DiffIdle /\ ObsIdle

NextFwPorts ==
    \/ FwComputePorts
    \/ FwListNodes

SpecFwPorts == InitFwPorts /\ [][NextFwPorts]_vars

PortsComputed == pc \notin {"fw:ports"}

\* C3: ApplyFireWallRules for a role with an empty TCP or an empty UDP port set
\* returns the NoPortsForRole error to its caller and issues no remote command.
C3_EmptyPortsReturnError ==
    (PortsComputed /\ (tcp = <<>> \/ udp = <<>>)) =>
      /\ pc = "fw:returned"
      /\ fwErr = "NoPortsForRole"
      /\ \A n \in Nodes : cmds[n] = <<>>

\* the commands sent so far on node n are the first ones of the fixed list, in its
\* order, and all but the last one sent succeeded
IssuedInOrder(n) ==
    LET all == Commands(TrimSeparator(tcp), TrimSeparator(udp)) IN
      /\ Len(cmds[n]) <= NumCommands
      /\ Len(results[n]) = Len(cmds[n])
      /\ \A k \in 1..Len(cmds[n]) :
           /\ cmds[n][k] = all[k]
           /\ k < Len(cmds[n]) => results[n][k] = "ok"

\* C11: on every node the remote commands are issued in the fixed order (chain,
\* loopback, established/related, 22/TCP, 67-68/UDP, ICMP, computed TCP ports,
\* computed UDP ports, log-and-drop, INPUT jump); a command is issued only after
\* all earlier ones succeeded and none is issued after a failing one.
C11_CommandOrder == \A n \in Nodes : IssuedInOrder(n)

\* one node got all ten commands, another stopped at its failing seventh command
C11_Witness ==
    \E n, m \in Nodes :
      /\ fwPc[n] = "done" /\ fwPc[m] = "done"
      /\ Len(cmds[n]) = NumCommands /\ results[n][NumCommands] = "ok"
      /\ Len(cmds[m]) = 7 /\ results[m][7] = "err"
      /\ cmds[m][7] = <<"add rule FIREWALL tcp dport accept", TrimSeparator(tcp)>>

FanOutDone == pc \in {"fw:wait", "fw:returned"}

\* the port numbers of a port-list string: its tokens are port, separator, port, ...
PortsOf(str) == {str[i] : i \in {j \in 1..Len(str) : j % 2 = 1}}

\* the ports the matrix declares for the target role and a protocol
RolePorts(proto) ==
    {mat[1][i].Port :
       i \in {j \in 1..Len(mat[1]) :
                mat[1][j].NodeRole = role /\ mat[1][j].Protocol = proto}}

Count(seq, x) == Cardinality({i \in 1..Len(seq) : seq[i] = x})

\* C12: ApplyFireWallRules starts one task for every node of the target role and
\* none for any other node; the port lists hold the ports of the matrix records
\* of the target role only; no pod is created and no command is executed on a
\* node of another role.
C12_OnlyTargetRole ==
    /\ FanOutDone =>
         \A n \in Nodes : (nodeRoles[n] = role) <=> (fwPc[n] # "skipped")
    /\ \A n \in Nodes :
         /\ Count(podLog[n], "new") <= 1
         /\ nodeRoles[n] # role => cmds[n] = <<>> /\ podLog[n] = <<>>
         /\ Len(cmds[n]) >= 8 =>
              /\ PortsOf(cmds[n][7][2]) = RolePorts("TCP")
              /\ PortsOf(cmds[n][8][2]) = RolePorts("UDP")
    /\ PortsComputed =>
         /\ PortsOf(tcp) = RolePorts("TCP")
         /\ PortsOf(udp) = RolePorts("UDP")

\* the matrix also declares a port for the other role; the node of the target
\* role got every command and the node of the other role got none
C12_Witness ==
    /\ pc = "fw:returned"
    /\ \E i \in 1..Len(mat[1]) :
         mat[1][i].NodeRole # role /\ mat[1][i].Port \notin PortsOf(tcp)
    /\ \E n, m \in Nodes :
         /\ nodeRoles[n] = role /\ Len(cmds[n]) = NumCommands /\ fwPc[n] = "done"
         /\ nodeRoles[m] # role /\ fwPc[m] = "skipped"

\* the port numbers of a port-list string, in its order
PortList(str) == [i \in 1..((Len(str) + 1) \div 2) |-> str[2 * i - 1]]

\* the distinct ports of the role and the protocol, in first-seen matrix order
RECURSIVE FirstSeenPorts(_, _, _, _)
FirstSeenPorts(m, r, proto, seen) ==
    IF m = <<>> THEN <<>>
    ELSE LET cd == Head(m) IN
         IF cd.NodeRole = r /\ cd.Protocol = proto /\ cd.Port \notin seen
           THEN <<cd.Port>> \o FirstSeenPorts(Tail(m), r, proto, seen \cup {cd.Port})
           ELSE FirstSeenPorts(Tail(m), r, proto, seen)

\* C13: for every deduplicated matrix the TCP and the UDP port list computed for
\* a role hold each port number once, in first-seen matrix order, also when
\* several records of the role share protocol and port and differ in service.
C13_PortsListedOnce ==
    (PortsComputed /\ CanTrim(tcp) /\ CanTrim(udp)) =>
      /\ PortList(tcp) = FirstSeenPorts(mat[1], role, "TCP", {})
      /\ PortList(udp) = FirstSeenPorts(mat[1], role, "UDP", {})

-----------------------------------------------------------------------------
(* Fan-in of the observation tasks *)

\* the orders in which the nodes can have appended
NodeOrders == {o \in [1..NumNodes -> Nodes] : \A i, j \in 1..NumNodes : i # j => o[i] # o[j]}

\* the results of the nodes, one whole block per node, in the order o
RECURSIVE Blocks(_, _)
Blocks(o, i) == IF i > Len(o) THEN <<>> ELSE cds[o[i]] \o Blocks(o, i + 1)

AllSucceeded == gFailed = <<>> /\ \A n \in Nodes : taskPc[n] = "done"

\* C14: under every interleaving of the observation tasks, when all tasks succeed
\* the accumulator at the barrier is the concatenation of the nodes' results, one
\* whole block per node in some order of the nodes: nothing lost, nothing
\* duplicated, no two blocks interleaved.
C14_AccumulatorComplete ==
    AllSucceeded => \E o \in NodeOrders : nodesComDetails = Blocks(o, 1)

\* two nodes with two records each, the second node's block first
C14_Witness ==
    /\ AllSucceeded
    /\ pc = "obs:wait"
    /\ cds[1] = <<sshdOpt, statd>>
    /\ cds[2] = <<statd, sshdOpt>>
    /\ nodesComDetails = cds[2] \o cds[1]

\* main is past g.Wait and on its way through deduplication and the outputs
DedupBegun == pc \in {"obs:clean", "obs:write", "diff", "diff:built", "diff:written"}

\* C15: deduplication of the accumulator and the construction of the observed
\* matrix start only after every per-node task has terminated: once main is past
\* the barrier no task is running, appending or holding the lock.
C15_DedupAfterBarrier ==
    (DedupBegun \/ ssComMat # <<>>) =>
      /\ \A n \in Nodes : taskPc[n] = "done"
      /\ nLock = 0

\* deduplication ran on what two finished tasks had appended and dropped a copy
C15_Witness ==
    /\ pc = "obs:write"
    /\ \A n \in Nodes : taskPc[n] = "done" /\ cds[n] # <<>>
    /\ Len(ssComMat) < Len(nodesComDetails)

-----------------------------------------------------------------------------
(* The two fan-outs side by side *)

InitFanOuts == InitObs \/ InitFw

NextFanOuts == NextObs \/ NextFw

SpecFanOuts == InitFanOuts /\ [][NextFanOuts]_vars

\* the error an errgroup holds after the tasks of `failed` returned errors in this order
FirstError(failed) == IF failed = <<>> THEN "" ELSE TaskError(Head(failed))

RECURSIVE TotalLen(_, _)
TotalLen(f, S) ==
    IF S = {} THEN 0
    ELSE LET n == CHOOSE x \in S : TRUE IN Len(f[n]) + TotalLen(f, S \ {n})

\* the task of node n sent all ten commands and each succeeded
Provisioned(n) ==
    /\ Len(cmds[n]) = NumCommands
    /\ \A k \in 1..NumCommands : results[n][k] = "ok"

ObsBarrierPassed == DedupBegun \/ (pc = "main:panic" /\ gErr # "")

\* C16: in both fan-outs a failing task does not cancel the others: the barrier
\* returns only after all started tasks have finished, every task that did not
\* fail itself has run to its end (its result appended, its ten commands sent),
\* the error reported is that of the first task that failed, and no command
\* outside the fixed list (no rollback) is ever sent.
C16_NoCancellation ==
    /\ gErr = FirstError(gFailed)
    /\ fwErr = FirstError(fwFailed)
    /\ ObsBarrierPassed =>
         /\ \A n \in Nodes : taskPc[n] = "done"
         /\ \A n \in Nodes \ Range(gFailed) : pods[n] = "cleaned"
         /\ Len(nodesComDetails) = TotalLen(cds, Nodes)
    /\ pc = "fw:returned" =>
         /\ \A n \in Nodes : fwPc[n] \in {"done", "skipped"}
         /\ \A n \in Nodes \ Range(fwFailed) : nodeRoles[n] = role => Provisioned(n)
    /\ \A n \in Nodes : \A k \in 1..Len(cmds[n]) :
         cmds[n][k] \in Range(Commands(TrimSeparator(tcp), TrimSeparator(udp)))

\* the task of node 2 failed at its first command; the task of node 1 ran on to
\* its tenth command and the barrier reports node 2's error
C16_Witness ==
    /\ pc = "fw:returned"
    /\ fwFailed = <<2>> /\ fwErr = TaskError(2)
    /\ Len(cmds[2]) = 1
    /\ Provisioned(1)

-----------------------------------------------------------------------------
(* The whole run of main, from the return of New to the exit of the process *)

taskVars == <<taskPc, cds, nodesComDetails, lockVars, grpVars, podVars>>

\* lines 84-97: panic when New failed, else printFn and os.WriteFile of
\* communication-matrix.<format>
MainWriteDeclared ==
    /\ pc = "new:returned"
    /\ IF err # ""
         THEN /\ pc' = "main:panic"
              /\ UNCHANGED fileVars
         ELSE /\ stages' = Append(stages, "declared-file")
              /\ \/ /\ files' = files \cup {"communication-matrix"}
                    /\ pc' = "main:client"
                 \/ /\ files' = files
                    /\ pc' = "main:panic"
    /\ UNCHANGED <<newVars, mat, ssComMat, diffVars, obsVars, fwVars>>

\* cs, err := clientutil.New(kubeconfig)
MainClient ==
    /\ pc = "main:client"
    /\ \/ pc' = "main:rawfiles"
       \/ pc' = "main:panic"
    /\ UNCHANGED <<newVars, mat, ssComMat, diffVars, obsVars, fwVars, fileVars>>

\* os.OpenFile of raw-ss-tcp and raw-ss-udp, which the capture writes to;
\* `files` holds what main itself writes with os.WriteFile
MainOpenRawFiles ==
    /\ pc = "main:rawfiles"
    /\ \/ pc' = "obs:list"
       \/ pc' = "main:panic"
    /\ UNCHANGED <<newVars, mat, ssComMat, diffVars, obsVars, fwVars, fileVars>>

\* err = commatrix.ApplyFireWallRules(cs, mat, "master"): the call
MainApplyFirewall ==
    /\ pc = "diff:written"
    /\ role' = "master"
    /\ pc' = "fw:ports"
    /\ stages' = Append(stages, "firewall")
    /\ files' = files
    /\ UNCHANGED <<newVars, mat, ssComMat, diffVars, obsVars>>
    /\ UNCHANGED <<nodeRoles, tcp, udp, fwPc, cmdVars, fwGrpVars>>

\* a panic inside ApplyFireWallRules unwinds main: its deferred functions run
MainFirewallPanics ==
    /\ pc = "fw:panic"
    /\ pc' = "main:panic"
    /\ debugNs' = AfterPanic(debugNs)
    /\ UNCHANGED <<newVars, mat, ssComMat, diffVars, taskVars, fwVars, fileVars>>

\* mutant: the error of ApplyFireWallRules is not looked at
MainAfterFirewall_IgnoreError ==
    /\ pc = "fw:returned"
    /\ pc' = "nft:worker"
    /\ debugNs' = debugNs
    /\ UNCHANGED <<newVars, mat, ssComMat, diffVars, taskVars, fwVars, fileVars>>

\* if err != nil { panic(err) } after ApplyFireWallRules, then the two
\* types.ToNFTables calls, which return no error
MainAfterFirewall ==
    /\ pc = "fw:returned"
    /\ IF fwErr # ""
         THEN /\ pc' = "main:panic"
              /\ debugNs' = AfterPanic(debugNs)
         ELSE /\ pc' = "nft:worker"
              /\ debugNs' = debugNs
    /\ UNCHANGED <<newVars, mat, ssComMat, diffVars, taskVars, fwVars, fileVars>>

\* os.WriteFile(<destDir>/nft-file-worker, nftWorker)
MainWriteNftWorker ==
    /\ pc = "nft:worker"
    /\ stages' = Append(stages, "nft-worker")
    /\ \/ /\ files' = files \cup {"nft-file-worker"}
          /\ pc' = "nft:master"
          /\ debugNs' = debugNs
       \/ /\ files' = files
          /\ pc' = "main:panic"
          /\ debugNs' = AfterPanic(debugNs)
    /\ UNCHANGED <<newVars, mat, ssComMat, diffVars, taskVars, fwVars>>

\* os.WriteFile(<destDir>/nft-file-master, nftMaster)
MainWriteNftMaster ==
    /\ pc = "nft:master"
    /\ stages' = Append(stages, "nft-master")
    /\ \/ /\ files' = files \cup {"nft-file-master"}
          /\ pc' = "main:return"
          /\ debugNs' = debugNs
       \/ /\ files' = files
          /\ pc' = "main:panic"
          /\ debugNs' = AfterPanic(debugNs)
    /\ UNCHANGED <<newVars, mat, ssComMat, diffVars, taskVars, fwVars>>

\* main returns: the deferred debug.DeleteNamespace runs
MainReturn ==
    /\ pc = "main:return"
    /\ pc' = "main:returned"
    /\ debugNs' = "deleteCalled"
    /\ UNCHANGED <<newVars, mat, ssComMat, diffVars, taskVars, fwVars, fileVars>>

\* declared matrices New returned: with and without a UDP port of the master role
RunMatrices == {<<sshd, statd, exporter>>, <<sshd, exporter>>}

InitRun ==
    /\ pc = "new:returned"
    /\ \/ mat \in {<<m>> : m \in RunMatrices} /\ err = ""
       \/ mat = <<>> /\ err = "failed creating the k8s client"
    /\ e = Baremetal /\ d = MNO
    /\ customEntriesPath = "" /\ customEntriesFormat = ""
    /\ res = <<>> /\ epSliceComDetails = <<>> /\ customComDetails = <<>>
    /\ staticEntries = <<>>
    /\ ran = <<>> /\ fileOpened = FALSE
    /\ ssComMat = <<>>
    /\ files = {} /\ stages = <<>>
    /\ nodeRoles \in [Nodes -> {"master", "worker"}]
    /\ role = "" /\ tcp = <<>> /\ udp = <<>>
    /\ fwPc = [n \in Nodes |-> "idle"]
    /\ cmds = [n \in Nodes |-> <<>>]
    /\ results = [n \in Nodes |-> <<>>]
    /\ fwErr = ""
    /\ fwFailed = <<>>
    /\ DiffIdle /\ ObsIdle

NextRun ==
    \/ MainWriteDeclared
    \/ MainClient
    \/ MainOpenRawFiles
    \/ NextObs
    \/ MainApplyFirewall
    \/ NextFw
    \/ MainFirewallPanics
    \/ MainAfterFirewall
    \/ MainWriteNftWorker
    \/ MainWriteNftMaster
    \/ MainReturn

SpecRun == InitRun /\ [][NextRun]_vars

\* the pod events of node n so far: every Clean follows its own debug.New
PodsBalanced(n) ==
    \A i \in 1..Len(podLog[n]) : podLog[n][i] = IF i % 2 = 1 THEN "new" ELSE "clean"

TaskRunning(n) ==
    \/ taskPc[n] \notin {"idle", "done"}
    \/ fwPc[n] \notin {"idle", "skipped", "done"}

MainExited == pc \in {"main:panic", "main:returned"}

\* C17: every debug pod a per-node task (observation or firewall) created has
\* Clean invoked once before the task terminates, whether the task succeeded or
\* failed at any step, and the debug namespace main created has its deletion
\* invoked on every exit of main, the abort after a per-node failure included,
\* and not before the tasks are over.
C17_ContextsReleased ==
    /\ \A n \in Nodes :
         /\ PodsBalanced(n)
         /\ ~TaskRunning(n) => pods[n] # "up" /\ Len(podLog[n]) % 2 = 0
    /\ MainExited => debugNs # "created"
    /\ debugNs = "deleteCalled" => MainExited /\ \A n \in Nodes : ~TaskRunning(n)

\* main aborted after a firewall task failed at a command in the middle: the
\* pods of both of the node's tasks were cleaned and the namespace deletion ran
C17_Witness ==
    /\ pc = "main:panic"
    /\ debugNs = "deleteCalled"
    /\ \E n \in Nodes :
         /\ n \in Range(fwFailed)
         /\ Len(cmds[n]) = 5
         /\ podLog[n] = <<"new", "clean", "new", "clean">>

StageOrder ==
    <<"declared-file", "capture", "observed-file", "diff-file", "firewall",
      "nft-worker", "nft-master">>

\* the output file of each stage that writes one
StageFile ==
    [s \in Range(StageOrder) |->
       CASE s = "declared-file" -> {"communication-matrix"}
         [] s = "observed-file" -> {"ss-generated-matrix"}
         [] s = "diff-file"     -> {"matrix-diff-ss"}
         [] s = "nft-worker"    -> {"nft-file-worker"}
         [] s = "nft-master"    -> {"nft-file-master"}
         [] OTHER               -> {}]

\* stage number k of the run, attempted earlier, succeeded
StageSucceeded(k) ==
    /\ StageFile[StageOrder[k]] \subseteq files
    /\ StageOrder[k] = "capture" =>
         gErr = "" /\ \A n \in Nodes : taskPc[n] = "done"
    /\ StageOrder[k] = "firewall" =>
         fwErr = "" /\ \A n \in Nodes : fwPc[n] \in {"done", "skipped"}

\* C18: the run is a fail-stop sequence of stages in the fixed order declared
\* file, capture, observed file, diff file, firewall, worker rule file, master
\* rule file: a stage is attempted only after all earlier ones succeeded, and the
\* files of the earlier stages stay in place whatever happens later.
C18_FailStopStages ==
    /\ stages = SubSeq(StageOrder, 1, Len(stages))
    /\ \A k \in 1..(Len(stages) - 1) : StageSucceeded(k)
    /\ \A s \in Range(StageOrder) \ Range(stages) : StageFile[s] \cap files = {}
    /\ \A n \in Nodes : cmds[n] # <<>> => "firewall" \in Range(stages)
    /\ \A n \in Nodes : taskPc[n] # "idle" => "capture" \in Range(stages)

\* the run aborted at the firewall stage with the three earlier files in place
C18_Witness ==
    /\ pc = "main:panic"
    /\ fwErr # ""
    /\ stages = SubSeq(StageOrder, 1, 5)
    /\ files = {"communication-matrix", "ss-generated-matrix", "matrix-diff-ss"}

\* the run went through all its stages
C18_WitnessComplete ==
    /\ pc = "main:returned"
    /\ stages = StageOrder
    /\ Cardinality(files) = 5

-----------------------------------------------------------------------------
(* Layout of the diff *)

\* the lines render records of m2, in m2's order
InObservedOrder(lines, m2) ==
    \E idx \in [1..Len(lines) -> 1..Len(m2)] :
      /\ \A a, b \in 1..Len(lines) : a < b => idx[a] < idx[b]
      /\ \A a \in 1..Len(lines) : lines[a].text = ComDetailsString(m2[idx[a]])

\* C19: the diff is the header line, then one line per declared record in
\* declared-matrix order, then the "- "-prefixed lines in observed-matrix order;
\* no "- " line precedes a declared-record line.
C19_DiffLayout ==
    DiffBuilt =>
      LET m1 == mat[1]
          n1 == Len(mat[1])
      IN /\ Len(diff) >= 1 + n1
         /\ diff[1] = Line("", CSVHeaders)
         /\ \A i \in 1..n1 :
              /\ diff[1 + i].text = ComDetailsString(m1[i])
              /\ diff[1 + i].prefix \in {"", "+ "}
         /\ \A j \in (n1 + 2)..Len(diff) : diff[j].prefix = "- "
         /\ InObservedOrder(SubSeq(diff, n1 + 2, Len(diff)), ssComMat)

-----------------------------------------------------------------------------
(* Termination of the observation fan-out *)

\* the steps of the task of node n
TaskNext(n) ==
    \/ TaskDebugNew(n)
    \/ TaskCapture(n)
    \/ TaskLock(n)
    \/ TaskAppendRead(n)
    \/ TaskAppend(n)
    \/ TaskUnlock(n)
    \/ TaskReturn(n)

\* the scheduler keeps running some goroutine that can take a step, and every
\* collaborator call returns
SpecObsFair ==
    /\ InitObs
    /\ [][NextObs]_vars
    /\ WF_vars(ObsWait \/ \E n \in Nodes : TaskNext(n))

\* node n holds the lock exactly while it is between Lock and Unlock
LockAroundAppend(n) ==
    (nLock = n) <=> (taskPc[n] \in {"append", "append:write", "unlock"})

\* C20: the accumulator lock is held only around the append, every task that
\* took it releases it before it terminates, a failing task never holds it, and
\* under fair scheduling the barrier g.Wait eventually returns.
C20_FanOutTerminates ==
    /\ [](\A n \in Nodes : LockAroundAppend(n))
    /\ [](nLock \in Nodes \cup {0})
    /\ (pc = "obs:wait") ~> (pc \in {"obs:clean", "main:panic"})

\* one task is in its append while another waits for the lock and a third
\* party, the barrier, waits for both
C20_Witness ==
    /\ pc = "obs:wait"
    /\ \E n, m \in Nodes :
         /\ nLock = n /\ taskPc[n] = "append:write"
         /\ taskPc[m] = "lock"

=============================================================================
